---- MODULE Spec2Model ----
(***************************************************************************)
(* A model of the patent-drawing parser: the page pipeline of              *)
(* src/src/vision_lmm.py (rotation, unified crop, OCR hints, one model     *)
(* call per page, merge, final sort), the image helpers of                 *)
(* src/src/pdf_utils.py and the /api/parse handler of src/app.py.          *)
(*                                                                         *)
(* Python strings are sequences of one-character strings, so the regular   *)
(* expressions and the string methods of the source are computed           *)
(* character by character.                                                 *)
(***************************************************************************)
EXTENDS Integers, Sequences, FiniteSets, TLC

\* ------------------------------------------------------------------------
\* Characters and the str methods the source uses
\* ------------------------------------------------------------------------

\* The characters of the model in code-point order (str comparison order).
CharOrder ==
    << " ", "!", "\"", "'", "-", ".",
       "0", "1", "2", "3", "4", "5", "6", "7", "8", "9",
       "A", "B", "F", "G", "I",
       "a", "b", "f", "g", "i" >>

Chars == { CharOrder[k] : k \in 1..Len(CharOrder) }

\* ord(c), up to the code points the model leaves out
OrdTable == [c \in Chars |-> CHOOSE k \in 1..Len(CharOrder) : CharOrder[k] = c]
Ord(c) == OrdTable[c]

DigitChars == {"0", "1", "2", "3", "4", "5", "6", "7", "8", "9"}
UpperChars == {"A", "B", "F", "G", "I"}
LowerChars == {"a", "b", "f", "g", "i"}
AlphaChars == UpperChars \cup LowerChars
SpaceChars == {" "}
PrimeChars == {"'", "\""}

DigitVal(c) == Ord(c) - Ord("0")

\* str.lower / str.upper on one character: the letter at the same place of
\* the other alphabet
LowerTable ==
    [c \in Chars |->
       IF c \in UpperChars
       THEN CHOOSE d \in LowerChars :
               Cardinality({u \in UpperChars : Ord(u) < Ord(c)})
                 = Cardinality({l \in LowerChars : Ord(l) < Ord(d)})
       ELSE c]
LowerChar(c) == LowerTable[c]

UpperTable ==
    [c \in Chars |->
       IF c \in LowerChars
       THEN CHOOSE d \in UpperChars :
               Cardinality({l \in LowerChars : Ord(l) < Ord(c)})
                 = Cardinality({u \in UpperChars : Ord(u) < Ord(d)})
       ELSE c]
UpperChar(c) == UpperTable[c]

Lower(s) == [k \in 1..Len(s) |-> LowerChar(s[k])]

\* str.strip()
RECURSIVE LStrip(_)
LStrip(s) ==
    IF s # << >> /\ Head(s) \in SpaceChars THEN LStrip(Tail(s)) ELSE s

RECURSIVE RStrip(_)
RStrip(s) ==
    IF s # << >> /\ s[Len(s)] \in SpaceChars
    THEN RStrip(SubSeq(s, 1, Len(s) - 1))
    ELSE s

Strip(s) == RStrip(LStrip(s))

\* str.isdigit()
IsDigitStr(s) == s # << >> /\ \A k \in 1..Len(s) : s[k] \in DigitChars

\* int() of a digit string
RECURSIVE IntOf(_)
IntOf(s) ==
    IF s = << >> THEN 0
    ELSE 10 * IntOf(SubSeq(s, 1, Len(s) - 1)) + DigitVal(s[Len(s)])

\* str < str (lexicographic by code point)
RECURSIVE StrLess(_, _)
StrLess(a, b) ==
    IF b = << >> THEN FALSE
    ELSE IF a = << >> THEN TRUE
    ELSE IF Head(a) = Head(b) THEN StrLess(Tail(a), Tail(b))
    ELSE Ord(Head(a)) < Ord(Head(b))

\* Length of the longest prefix of s, starting at position k, whose
\* characters are all in cls (a greedy X* of a regular expression).
RECURSIVE RunLen(_, _, _)
RunLen(s, k, cls) ==
    IF k <= Len(s) /\ s[k] \in cls THEN 1 + RunLen(s, k + 1, cls) ELSE 0

\* ------------------------------------------------------------------------
\* Label normalizer (vision_lmm.py)
\* ------------------------------------------------------------------------

MainChars == AlphaChars \cup DigitChars \cup {"-"}

\* _COMPONENT_RE.fullmatch(s): <main: [a-zA-Z0-9-]+><prime: ['"]{0,2}>.
\* The two classes are disjoint, so main is the leading MainChars run.
ComponentMainLen(s) == RunLen(s, 1, MainChars)

_COMPONENT_RE(s) ==
    LET m == ComponentMainLen(s)
        p == RunLen(s, m + 1, PrimeChars)
    IN  m >= 1 /\ p <= 2 /\ m + p = Len(s)

\* {"": 0, "'": 1, '"': 2, "''": 3, '""': 4}.get(prime_part, 9)
PrimeRank(p) ==
    IF p = << >> THEN 0
    ELSE IF p = << "'" >> THEN 1
    ELSE IF p = << "\"" >> THEN 2
    ELSE IF p = << "'", "'" >> THEN 3
    ELSE IF p = << "\"", "\"" >> THEN 4
    ELSE 9

\* _component_sort_key(s): the tuple (num, main.lower(), prime rank)
_component_sort_key(s0) ==
    LET s == Strip(s0)
    IN  IF ~_COMPONENT_RE(s)
        THEN [num |-> 9999, main |-> s, rank |-> 9]
        ELSE LET m     == ComponentMainLen(s)
                 main  == SubSeq(s, 1, m)
                 prime == SubSeq(s, m + 1, Len(s))
                 d     == RunLen(main, 1, DigitChars)
             IN  [num  |-> IF d > 0 THEN IntOf(SubSeq(main, 1, d)) ELSE 0,
                  main |-> Lower(main),
                  rank |-> PrimeRank(prime)]

\* Python's tuple comparison k1 < k2 on component sort keys
CompKeyLess(k1, k2) ==
    \/ k1.num < k2.num
    \/ k1.num = k2.num /\ StrLess(k1.main, k2.main)
    \/ k1.num = k2.num /\ k1.main = k2.main /\ k1.rank < k2.rank

\* sorted(lst, key=_component_sort_key): Python's sort is stable, so an
\* element goes after every element whose key is not greater than its own.
RECURSIVE InsertByCompKey(_, _)
InsertByCompKey(sorted, x) ==
    IF sorted = << >> THEN << x >>
    ELSE IF CompKeyLess(_component_sort_key(x), _component_sort_key(Head(sorted)))
    THEN << x >> \o sorted
    ELSE << Head(sorted) >> \o InsertByCompKey(Tail(sorted), x)

RECURSIVE SortedByCompKey(_)
SortedByCompKey(lst) ==
    IF lst = << >> THEN << >>
    ELSE InsertByCompKey(SortedByCompKey(SubSeq(lst, 1, Len(lst) - 1)), lst[Len(lst)])

\* list(set(...)): the elements of S in the iteration order of a Python set
\* of strings, which depends on the process's string hashing; every
\* enumeration of S without repetition is a possible outcome.
RECURSIVE SetOrders(_)
SetOrders(S) ==
    IF S = {} THEN { << >> }
    ELSE UNION { { << x >> \o t : t \in SetOrders(S \ {x}) } : x \in S }

ToSet(lst) == { lst[k] : k \in 1..Len(lst) }

FigPrefix == << "F", "I", "G", ".", " " >>

\* re.search(r"(\d+)\s*([A-Za-z])?$", s) succeeds starting at position k
TrailingFigAt(s, k) ==
    /\ k \in 1..Len(s)
    /\ s[k] \in DigitChars
    /\ LET d == RunLen(s, k, DigitChars)
           w == RunLen(s, k + d, SpaceChars)
           p == k + d + w
       IN  \/ p = Len(s) + 1
           \/ p = Len(s) /\ s[p] \in AlphaChars

\* _normalize_figure(fig); fig is a JSON value [t, s], "" stands for no id
_normalize_figure(fig) ==
    IF fig.t # "str" THEN << >>
    ELSE
      LET s == Strip(fig.s)
          starts == { k \in 1..Len(s) : TrailingFigAt(s, k) }
          digits == { k \in 1..Len(s) : s[k] \in DigitChars }
      IN  IF starts # {}
          THEN LET k == CHOOSE j \in starts : \A j2 \in starts : j <= j2
                   d == RunLen(s, k, DigitChars)
                   w == RunLen(s, k + d, SpaceChars)
                   p == k + d + w
               IN  FigPrefix \o SubSeq(s, k, k + d - 1)
                     \o (IF p = Len(s) THEN << UpperChar(s[p]) >> ELSE << >>)
          ELSE IF digits # {}
          THEN LET k == CHOOSE j \in digits : \A j2 \in digits : j <= j2
               IN  FigPrefix \o SubSeq(s, k, k + RunLen(s, k, DigitChars) - 1)
          ELSE << >>

\* _figure_sort_key(fig): (first digit run as int or 0, trailing [A-Z] or "")
_figure_sort_key(fig) ==
    LET digits == { k \in 1..Len(fig) : fig[k] \in DigitChars }
        k == CHOOSE j \in digits : \A j2 \in digits : j <= j2
    IN  [num |-> IF digits = {} THEN 0
                 ELSE IntOf(SubSeq(fig, k, k + RunLen(fig, k, DigitChars) - 1)),
         suf |-> IF fig # << >> /\ fig[Len(fig)] \in UpperChars
                 THEN << fig[Len(fig)] >> ELSE << >>]

\* the key of sorted(merged.keys(), key=lambda x: (x[0], _figure_sort_key(x[1])))
FinalKeyLess(a, b) ==
    LET ka == _figure_sort_key(a.figure)
        kb == _figure_sort_key(b.figure)
    IN  \/ a.page < b.page
        \/ a.page = b.page /\ ka.num < kb.num
        \/ a.page = b.page /\ ka.num = kb.num /\ StrLess(ka.suf, kb.suf)

RECURSIVE InsertByFinalKey(_, _)
InsertByFinalKey(sorted, x) ==
    IF sorted = << >> THEN << x >>
    ELSE IF FinalKeyLess(x, Head(sorted)) THEN << x >> \o sorted
    ELSE << Head(sorted) >> \o InsertByFinalKey(Tail(sorted), x)

RECURSIVE SortedByFinalKey(_)
SortedByFinalKey(lst) ==
    IF lst = << >> THEN << >>
    ELSE InsertByFinalKey(SortedByFinalKey(SubSeq(lst, 1, Len(lst) - 1)), lst[Len(lst)])

\* The values a JSON field can hold, as far as the code tells them apart:
\* a string, a list, a value that is neither and cannot be iterated
\* (number, null, true), or no such key.
Str(s)  == [t |-> "str", s |-> s, v |-> << >>]
NonStr  == [t |-> "other", s |-> << >>, v |-> << >>]
Absent  == [t |-> "absent", s |-> << >>, v |-> << >>]
List(v) == [t |-> "list", s |-> << >>, v |-> v]

\* What `for c in comps` yields, and whether it raises TypeError
Iterable(x) == x.t \in {"list", "str", "absent"}

Elements(x) ==
    IF x.t = "list" THEN x.v
    ELSE IF x.t = "str" THEN [k \in 1..Len(x.s) |-> Str(<< x.s[k] >>)]
    ELSE << >>

\* Steps 1 and 2 of _clean_components: the labels that survive, as a set
CleanedSet(comps) ==
    LET elems    == Elements(comps)
        stripped == { Strip(elems[k].s) : k \in { j \in 1..Len(elems) : elems[j].t = "str" } }
        matching == { c \in stripped : _COMPONENT_RE(c) }
        has_multi_digit == \E c \in matching : IsDigitStr(c) /\ Len(c) >= 2
    IN  IF has_multi_digit
        THEN { c \in matching : ~(IsDigitStr(c) /\ Len(c) < 2) }
        ELSE matching

\* _clean_components(comps): every list it can return
_clean_components(comps) ==
    { SortedByCompKey(lst) : lst \in SetOrders(CleanedSet(comps)) }

\* ------------------------------------------------------------------------
\* Image helpers (pdf_utils.py).  An image is its size and its info map;
\* info is << >> until auto_rotate_deg is stored, then << angle >>.
\* ------------------------------------------------------------------------

Min(a, b) == IF a < b THEN a ELSE b
Max(a, b) == IF a > b THEN a ELSE b

angles == << 0, 90, 180, 270 >>

\* The `for angle in angles` loop of detect_and_correct_rotation from the
\* k-th angle on; counts[k] is the number of figure tags the OCR finds on
\* the proxy rotated by angles[k].
RECURSIVE RotationLoop(_, _, _, _)
RotationLoop(counts, k, best_angle, max_figs) ==
    IF k > Len(angles) THEN best_angle
    ELSE LET fig_count == counts[k]
             better    == fig_count > max_figs
             best2     == IF better THEN angles[k] ELSE best_angle
             max2      == IF better THEN fig_count ELSE max_figs
         IN  IF fig_count >= 2 THEN best2
             ELSE RotationLoop(counts, k + 1, best2, max2)

\* The loop with `>=` for `>`: on equal counts the last angle wins
RECURSIVE RotationLoopLastWins(_, _, _, _)
RotationLoopLastWins(counts, k, best_angle, max_figs) ==
    IF k > Len(angles) THEN best_angle
    ELSE LET fig_count == counts[k]
             better    == fig_count >= max_figs
             best2     == IF better THEN angles[k] ELSE best_angle
             max2      == IF better THEN fig_count ELSE max_figs
         IN  IF fig_count >= 2 THEN best2
             ELSE RotationLoopLastWins(counts, k + 1, best2, max2)

BestAngleLastWins(counts) == RotationLoopLastWins(counts, 1, 0, 0 - 1)

BestAngle(counts) == RotationLoop(counts, 1, 0, 0 - 1)

\* Image.rotate(angle, expand=True) for a multiple of 90 degrees
rotate_image(img, angle) ==
    IF angle \in {90, 270}
    THEN [img EXCEPT !.w = img.h, !.h = img.w]
    ELSE img

detect_and_correct_rotation(img, counts) ==
    LET best_angle == BestAngle(counts)
        out == IF best_angle # 0 THEN rotate_image(img, best_angle) ELSE img
    IN  [out EXCEPT !.info = << best_angle >>]

detect_w == 800

\* int(img.height / ratio) with ratio = img.width / detect_w
DetectH(img) == (img.h * detect_w) \div img.w

\* bbox[k] * ratio
ScaleUp(x, img) == (x * img.w) \div detect_w

NoBox == [some |-> FALSE, l |-> 0, t |-> 0, r |-> 0, b |-> 0]

\* get_unified_content_bbox(images); found[k] is inverted.getbbox() of the
\* k-th proxy (NoBox for None).  g_left and g_top start at infinity, so the
\* first box found sets them.
RECURSIVE UnifyLoop(_, _, _, _)
UnifyLoop(images, found, k, g) ==
    IF k > Len(images) THEN g
    ELSE LET img  == images[k]
             bbox == found[k]
             g2 == IF ~bbox.some THEN g
                   ELSE [some |-> TRUE,
                         l |-> IF g.some THEN Min(g.l, ScaleUp(bbox.l, img))
                               ELSE ScaleUp(bbox.l, img),
                         t |-> IF g.some THEN Min(g.t, ScaleUp(bbox.t, img))
                               ELSE ScaleUp(bbox.t, img),
                         r |-> Max(g.r, ScaleUp(bbox.r, img)),
                         b |-> Max(g.b, ScaleUp(bbox.b, img))]
         IN  UnifyLoop(images, found, k + 1, g2)

get_unified_content_bbox(images, found) == UnifyLoop(images, found, 1, NoBox)

\* The rectangle apply_uniform_crop hands to img.crop
CropRect(img, bbox, padding) ==
    [l |-> Max(0, bbox.l - padding),
     t |-> Max(0, bbox.t - padding),
     r |-> Min(img.w, bbox.r + padding),
     b |-> Min(img.h, bbox.b + padding)]

\* apply_uniform_crop(img, bbox, padding) when img.crop returns
apply_uniform_crop(img, bbox, padding) ==
    IF ~bbox.some THEN img
    ELSE LET c == CropRect(img, bbox, padding)
         IN  [img EXCEPT !.w = Max(0, c.r - c.l), !.h = Max(0, c.b - c.t)]

\* img.crop on a rectangle whose right is left of its left (or bottom above
\* top) raises ValueError in current Pillow and gives an empty image in
\* older releases.
CropOutcomes(img, bbox, padding) ==
    IF ~bbox.some THEN {"ok"}
    ELSE LET c == CropRect(img, bbox, padding)
         IN  IF c.r < c.l \/ c.b < c.t THEN {"raise", "ok"} ELSE {"ok"}

\* fig_pattern.match(text): FIG[\.\s]*\d+ at the start, ignoring case
fig_pattern(text) ==
    /\ Len(text) >= 4
    /\ Lower(SubSeq(text, 1, 3)) = << "f", "i", "g" >>
    /\ LET g == RunLen(text, 4, {"."} \cup SpaceChars)
       IN  4 + g <= Len(text) /\ text[4 + g] \in DigitChars

\* comp_pattern.match(text): ^\d+[A-Za-z]?['"]{0,2}$
comp_pattern(text) ==
    LET d == RunLen(text, 1, DigitChars)
        a == IF d + 1 <= Len(text) /\ text[d + 1] \in AlphaChars THEN 1 ELSE 0
        p == RunLen(text, d + a + 1, PrimeChars)
    IN  d >= 1 /\ p <= 2 /\ d + a + p = Len(text)

min_conf == 20
max_digits == 6

\* The token loop without the `or text == "0"` test
HintOfKeepsZero(img, tok) ==
    LET text == Strip(tok.text)
        norm_box == << (tok.top * 1000) \div img.h,
                       (tok.left * 1000) \div img.w,
                       ((tok.top + tok.height) * 1000) \div img.h,
                       ((tok.left + tok.width) * 1000) \div img.w >>
    IN  IF tok.conf < min_conf \/ text = << >> THEN << >>
        ELSE IF IsDigitStr(text) /\ Len(text) > max_digits THEN << >>
        ELSE IF fig_pattern(text)
        THEN << [type |-> "figure_label", text |-> text, box_2d |-> norm_box] >>
        ELSE IF comp_pattern(text) \/ Len(text) = 1
        THEN << [type |-> "component", text |-> text, box_2d |-> norm_box] >>
        ELSE << >>

\* The body of the token loop of get_ocr_hints: the hints (none or one)
\* that token tok adds.
HintOf(img, tok) ==
    LET text == Strip(tok.text)
        norm_box == << (tok.top * 1000) \div img.h,
                       (tok.left * 1000) \div img.w,
                       ((tok.top + tok.height) * 1000) \div img.h,
                       ((tok.left + tok.width) * 1000) \div img.w >>
    IN  IF tok.conf < min_conf \/ text = << >> THEN << >>
        ELSE IF (IsDigitStr(text) /\ Len(text) > max_digits) \/ text = << "0" >>
        THEN << >>
        ELSE IF fig_pattern(text)
        THEN << [type |-> "figure_label", text |-> text, box_2d |-> norm_box] >>
        ELSE IF comp_pattern(text) \/ Len(text) = 1
        THEN << [type |-> "component", text |-> text, box_2d |-> norm_box] >>
        ELSE << >>

RECURSIVE get_ocr_hints(_, _)
get_ocr_hints(img, data) ==
    IF data = << >> THEN << >>
    ELSE HintOf(img, Head(data)) \o get_ocr_hints(img, Tail(data))

\* ------------------------------------------------------------------------
\* The model call and its parser (vision_lmm.py)
\* ------------------------------------------------------------------------

hint_limit == 50
crop_padding == 50

\* The prompt without the [:50] slice
PromptWithAllHints(page_num, hints) == [page |-> page_num, hints |-> hints]

\* _prompt_for_page(page_num, hints): what the prompt embeds
_prompt_for_page(page_num, hints) ==
    [page |-> page_num, hints |-> SubSeq(hints, 1, Min(hint_limit, Len(hints)))]

\* One figure entry of the model's answer, and an array element that is not
\* an object.
Item(fig, comps, hier) ==
    [t |-> "dict", figure |-> fig, components |-> comps, hierarchy |-> hier]
NonDict == [t |-> "other", figure |-> Absent, components |-> Absent, hierarchy |-> Absent]

\* Python values json.loads can return, as far as the caller tells them
\* apart: a list, a dict (iterating it yields its keys, which are strings),
\* a truthy value that cannot be iterated (a number, true), and a falsy one
\* (null, 0, false, "").
PyList(items) == [t |-> "list", items |-> items]
PyDict(nkeys) == [t |-> "dict", items |-> [k \in 1..nkeys |-> NonDict]]
PyScalar      == [t |-> "scalar", items |-> << >>]
PyFalsy       == [t |-> "falsy", items |-> << >>]

\* The text of an answer: optional ``` fences around it, optional prose in
\* front of it, and a body.  body.t is "empty" (no text), "prose" (no JSON,
\* no brackets), "truncated" (an array cut short), "array", "object" (with
\* nkeys keys, and inner: the items of the arrays nested in it, which is what
\* lies between its first '[' and last ']'), "scalar" or "null".
Text(fence, junk, body) == [fence |-> fence, junk |-> junk, body |-> body]
Body(t, items, nkeys, inner) ==
    [t |-> t, items |-> items, nkeys |-> nkeys, inner |-> inner]

\* json.loads on the whole body
Loads(body) ==
    IF body.t = "array" THEN PyList(body.items)
    ELSE IF body.t = "object" THEN PyDict(body.nkeys)
    ELSE IF body.t = "scalar" THEN PyScalar
    ELSE PyFalsy

_parse_json_array(txt) ==
    IF txt.body.t = "empty" THEN PyList(<< >>)
    ELSE
      \* the fences are removed when the text starts with them; with prose
      \* in front they stay, and json.loads fails on the prose anyway
      LET direct_ok == ~txt.junk
                         /\ txt.body.t \in {"array", "object", "scalar", "null"}
      IN  IF direct_ok THEN Loads(txt.body)
          \* re.search(r"(\[.*\])"): first '[' to last ']', parsed again; the
          \* tail fix never applies, the match always ends with ']'
          ELSE IF txt.body.t = "array" THEN PyList(txt.body.items)
          ELSE IF txt.body.t = "object" /\ txt.body.inner # << >>
          THEN PyList(txt.body.inner)
          ELSE PyList(<< >>)

\* What the HTTP exchange yields: an exception (connection error, timeout,
\* malformed envelope), a status other than 200, or a text payload.
Exception   == [k |-> "exception", txt |-> Text(FALSE, FALSE, Body("empty", << >>, 0, << >>))]
BadStatus   == [k |-> "status", txt |-> Text(FALSE, FALSE, Body("empty", << >>, 0, << >>))]
Payload(txt) == [k |-> "text", txt |-> txt]

\* _call_gemini_rest(img, prompt) with return_raw False, given the exchange
_call_gemini_rest(key, outcome) ==
    IF ~key THEN PyList(<< >>)
    ELSE IF outcome.k # "text" THEN PyList(<< >>)
    ELSE _parse_json_array(outcome.txt)

\* `res or []`, and whether iterating it raises TypeError
Truthy(res) == res.t = "scalar" \/ (res.t \in {"list", "dict"} /\ res.items # << >>)

\* ------------------------------------------------------------------------
\* The merge of one entry (the body of `for item in res or []`)
\* ------------------------------------------------------------------------

\* The position of key (page_no, fig) in the dict merged (kept in insertion
\* order), 0 when absent
KeyIndex(merged_r, page_no, fig) ==
    LET hit == { k \in 1..Len(merged_r) :
                   merged_r[k].page = page_no /\ merged_r[k].figure = fig }
    IN  IF hit = {} THEN 0 ELSE CHOOSE k \in hit : TRUE

\* The assignment with the new labels only: merged[key]["components"] =
\* sorted(list(set(new_comps)), ...)
UnionSortedOverwrites(old, new_comps) ==
    { SortedByCompKey(lst) : lst \in SetOrders(ToSet(new_comps)) }

\* sorted(list(set(old + new_comps)), key=_component_sort_key): every list
\* it can yield
UnionSorted(old, new_comps) ==
    { SortedByCompKey(lst) : lst \in SetOrders(ToSet(old \o new_comps)) }

\* merged[key]["hierarchy"].extend(item["hierarchy"])
ExtendHierarchy(old, hier) == old \o Elements(hier)

\* Every outcome of one loop iteration on item: the dict afterwards and
\* whether the iteration raised (AttributeError on a non-object item,
\* TypeError on a components or hierarchy value that cannot be iterated).
MergeItem(merged_r, page_no, item) ==
    IF item.t # "dict" THEN { [m |-> merged_r, raised |-> TRUE] }
    ELSE
      LET fig == _normalize_figure(item.figure)
      IN  IF fig = << >> THEN { [m |-> merged_r, raised |-> FALSE] }
          ELSE
            LET m1 == IF KeyIndex(merged_r, page_no, fig) = 0
                      THEN Append(merged_r,
                                  [page |-> page_no, figure |-> fig,
                                   components |-> << >>, hierarchy |-> << >>])
                      ELSE merged_r
                k  == KeyIndex(m1, page_no, fig)
            IN  IF ~Iterable(item.components)
                THEN { [m |-> m1, raised |-> TRUE] }
                ELSE
                  LET lists == UNION { UnionSorted(m1[k].components, nc) :
                                         nc \in _clean_components(item.components) }
                  IN  { IF item.hierarchy.t = "absent"
                        THEN [m |-> [m1 EXCEPT ![k].components = c], raised |-> FALSE]
                        ELSE IF ~Iterable(item.hierarchy)
                        THEN [m |-> [m1 EXCEPT ![k].components = c], raised |-> TRUE]
                        ELSE [m |-> [m1 EXCEPT ![k].components = c,
                                                ![k].hierarchy =
                                                   ExtendHierarchy(@, item.hierarchy)],
                              raised |-> FALSE]
                        : c \in lists }

\* The records in insertion order, the sort left out
FinalOutputUnsorted(merged_r) == merged_r

\* The list extract_figures_with_lmm returns: the records in sorted key
\* order, each with the fields components, hierarchy, figure, page
FinalOutput(merged_r) == SortedByFinalKey(merged_r)

\* ------------------------------------------------------------------------
\* State
\* ------------------------------------------------------------------------

\* Two runs of extract_figures_with_lmm, a and b, are fed the same pages and
\* the same model answers and step together; they differ only in the
\* iteration orders of their Python sets.
Runs == {"a", "b"}

VARIABLES
    pc,            \* where extract_figures_with_lmm is: "rotate", "bbox",
                   \* "crop", "hints", "call", "merge", "sort", "done",
                   \* "raised"; "idle" when no run is modelled
    api_key,       \* whether GEMINI_API_KEY is set
    pages,         \* the list pages: images [w, h, info]
    page_numbers,  \* the list page_numbers
    i,             \* the loop index (from 1)
    unified_bbox,  \* the unified content box, NoBox for None
    hints,         \* hints of the page in hand
    res,           \* the items of `res or []` still to be merged
    merged,        \* per run: the dict merged, as its records in insertion order
    final,         \* per run: the returned list, << >> before the return
    ocr_log,       \* what was written to ocr_log_<filename>.txt: per page, the
                   \* page number and the number of hints dumped
    raised_in,     \* the step an exception escaped from, "" if none
    \* what the run has seen and done, kept for the properties
    ocr_counts,    \* << page index, figure-tag counts of the four rotations >>
                   \* of the page rotated last, << >> before
    tokens,        \* the tokens image_to_data returned for the page in hand
    crops,         \* << rectangle passed to img.crop, size of the image it was
                   \* applied to >> of the page cropped last, << >> if none
    prompts,       \* << the prompt built for the page in hand >>
    posts,         \* per page: the number of requests.post calls
    progress,      \* per page: the last step completed
    box_count,     \* the number of calls of get_unified_content_bbox
    answers,       \* per page: << the items of `res or []` >>
    \* the /api/parse handler (app.py)
    fs,            \* the working directory: file name -> content
    req            \* per request: its position and locals

pipeVars == << pc, api_key, pages, page_numbers, i, unified_bbox, hints, res,
               merged, final, ocr_log, raised_in, ocr_counts, tokens, crops,
               prompts, posts, progress, box_count, answers >>
appVars  == << fs, req >>
vars     == << pipeVars, appVars >>

\* zip(page_numbers, pages) stops at the shorter list
NPages == Min(Len(page_numbers), Len(pages))

Image(w, h) == [w |-> w, h |-> h, info |-> << >>]

\* ------------------------------------------------------------------------
\* extract_figures_with_lmm, step by step.  The inputs the environment
\* supplies (OCR counts, content boxes, OCR tokens, model answers) are drawn
\* from the sets the actions are given.
\* ------------------------------------------------------------------------

AppIdle == fs = << >> /\ req = << >>

\* The state at entry, for a document doc = [pages, page_numbers]
PipeInit(Docs, Keys) ==
    /\ \E doc \in Docs :
         /\ pages = doc.pages
         /\ page_numbers = doc.page_numbers
         /\ answers  = [k \in 1..Len(doc.pages) |-> << >>]
         /\ posts    = [k \in 1..Len(doc.pages) |-> 0]
         /\ progress = [k \in 1..Len(doc.pages) |-> "raw"]
    /\ api_key \in Keys
    /\ ocr_counts = << >>
    /\ tokens = << >>
    /\ crops = << >>
    /\ prompts = << >>
    /\ pc = "rotate"
    /\ i = 1
    /\ unified_bbox = NoBox
    /\ box_count = 0
    /\ hints = << >>
    /\ res = PyList(<< >>)
    /\ merged = [r \in Runs |-> << >>]
    /\ final = [r \in Runs |-> << >>]
    /\ ocr_log = << >>
    /\ raised_in = ""
    /\ AppIdle

\* for i in range(len(pages)): pages[i] = detect_and_correct_rotation(pages[i])
Rotate(Counts) ==
    /\ pc = "rotate"
    /\ \E counts \in Counts :
         /\ pages' = [pages EXCEPT ![i] = detect_and_correct_rotation(@, counts)]
         /\ ocr_counts' = << i, counts >>
    /\ progress' = [progress EXCEPT ![i] = "rotated"]
    /\ i' = IF i = Len(pages) THEN 1 ELSE i + 1
    /\ pc' = IF i = Len(pages) THEN "bbox" ELSE "rotate"
    /\ UNCHANGED << api_key, page_numbers, unified_bbox, hints, res, merged, final,
                    ocr_log, raised_in, tokens, crops, prompts, posts, box_count,
                    answers, appVars >>

\* The box getbbox finds on the proxy of img, for a shape given in eighths of
\* the proxy's width and height
ProxyBox(img, shape) ==
    IF ~shape.some THEN NoBox
    ELSE [some |-> TRUE,
          l |-> (shape.l * detect_w) \div 8,
          t |-> (shape.t * DetectH(img)) \div 8,
          r |-> (shape.r * detect_w) \div 8,
          b |-> (shape.b * DetectH(img)) \div 8]

\* unified_bbox = get_unified_content_bbox(pages)
Bbox(Shapes) ==
    /\ pc = "bbox"
    /\ \E sh \in [1..Len(pages) -> Shapes] :
         unified_bbox' = get_unified_content_bbox(
                            pages, [k \in 1..Len(pages) |-> ProxyBox(pages[k], sh[k])])
    /\ box_count' = box_count + 1
    /\ pc' = IF NPages = 0 THEN "sort" ELSE "crop"
    /\ UNCHANGED << api_key, pages, page_numbers, i, hints, res, merged, final,
                    ocr_log, raised_in, ocr_counts, tokens, crops, prompts, posts,
                    progress, answers, appVars >>

\* cropped_img = apply_uniform_crop(page_img, unified_bbox, padding=50)
Crop ==
    /\ pc = "crop"
    /\ crops' = IF unified_bbox.some
                 THEN << CropRect(pages[i], unified_bbox, crop_padding),
                         [w |-> pages[i].w, h |-> pages[i].h] >>
                 ELSE << >>
    /\ \E out \in CropOutcomes(pages[i], unified_bbox, crop_padding) :
         IF out = "raise"
         THEN /\ pc' = "raised"
              /\ raised_in' = "crop"
              /\ UNCHANGED << pages, progress >>
         ELSE /\ pc' = "hints"
              /\ pages' = [pages EXCEPT ![i] =
                             apply_uniform_crop(@, unified_bbox, crop_padding)]
              /\ progress' = [progress EXCEPT ![i] = "cropped"]
              /\ UNCHANGED raised_in
    /\ UNCHANGED << api_key, page_numbers, i, unified_bbox, hints, res, merged,
                    final, ocr_log, ocr_counts, tokens, prompts, posts, box_count,
                    answers, appVars >>

\* hints = get_ocr_hints(pages[i]) and the three f_log.write calls.  An
\* image without pixels holds no tokens.
Hints(TokenLists) ==
    /\ pc = "hints"
    /\ \E data \in TokenLists :
         /\ (pages[i].w = 0 \/ pages[i].h = 0) => data = << >>
         /\ tokens' = data
         /\ hints' = get_ocr_hints(pages[i], data)
    /\ ocr_log' = Append(ocr_log, [page |-> page_numbers[i], nhints |-> Len(hints')])
    /\ progress' = [progress EXCEPT ![i] = "hinted"]
    /\ pc' = "call"
    /\ UNCHANGED << api_key, pages, page_numbers, i, unified_bbox, res, merged,
                    final, raised_in, ocr_counts, crops, prompts, posts, box_count,
                    answers, appVars >>

MaxEntries == 2

\* The number of entries the model has returned so far in this run
EntriesSoFar ==
    LET RECURSIVE Sum(_)
        Sum(k) == IF k = 0 THEN 0
                  ELSE Sum(k - 1) + (IF answers[k] = << >> THEN 0
                                     ELSE Len(answers[k][1]))
    IN  Sum(Len(answers))

\* res = _call_gemini_rest(pages[i], _prompt_for_page(page_no, hints)) inside
\* try/except Exception: res = []
Call(Outcomes) ==
    /\ pc = "call"
    /\ prompts' = << _prompt_for_page(page_numbers[i], hints) >>
    /\ \E outcome \in Outcomes :
         LET ans == _call_gemini_rest(api_key, outcome)
         IN  /\ EntriesSoFar + Len(ans.items) <= MaxEntries
             /\ res' = IF Truthy(ans) THEN ans ELSE PyList(<< >>)
             /\ answers' = [answers EXCEPT ![i] = << res'.items >>]
    /\ posts' = [posts EXCEPT ![i] = IF api_key THEN @ + 1 ELSE @]
    /\ progress' = [progress EXCEPT ![i] = "called"]
    /\ pc' = "merge"
    /\ UNCHANGED << api_key, pages, page_numbers, i, unified_bbox, hints, merged,
                    final, ocr_log, raised_in, ocr_counts, tokens, crops, box_count,
                    appVars >>

\* One round of `for item in res or []`: the next item is merged, or the
\* loop ends and the page loop goes on, or an exception escapes.
MergeStep ==
    /\ pc = "merge"
    /\ IF res.t = "scalar"
       THEN \* iterating a number raises TypeError
            /\ pc' = "raised"
            /\ raised_in' = "merge"
            /\ UNCHANGED << res, merged, i, progress >>
       ELSE IF res.items = << >>
       THEN /\ progress' = [progress EXCEPT ![i] = "merged"]
            /\ i' = i + 1
            /\ pc' = IF i = NPages THEN "sort" ELSE "crop"
            /\ UNCHANGED << res, merged, raised_in >>
       ELSE \E oa \in MergeItem(merged["a"], page_numbers[i], Head(res.items)) :
              \E ob \in MergeItem(merged["b"], page_numbers[i], Head(res.items)) :
                /\ merged' = [r \in Runs |-> IF r = "a" THEN oa.m ELSE ob.m]
                /\ IF oa.raised \/ ob.raised
                   THEN /\ pc' = "raised"
                        /\ raised_in' = "merge"
                        /\ UNCHANGED res
                   ELSE /\ pc' = "merge"
                        /\ res' = [res EXCEPT !.items = Tail(@)]
                        /\ UNCHANGED raised_in
                /\ UNCHANGED << i, progress >>
    /\ UNCHANGED << api_key, pages, page_numbers, unified_bbox, hints, final,
                    ocr_log, ocr_counts, tokens, crops, prompts, posts, box_count,
                    answers, appVars >>

\* The whole loop `for item in res or []` on the items of one page: every
\* outcome, the loop ending at the first iteration that raises
RECURSIVE MergeLoop(_, _, _)
MergeLoop(merged_r, page_no, items) ==
    IF items = << >> THEN { [m |-> merged_r, raised |-> FALSE] }
    ELSE UNION { IF o.raised THEN { o } ELSE MergeLoop(o.m, page_no, Tail(items)) :
                   o \in MergeItem(merged_r, page_no, Head(items)) }

\* The orders in which an answer can list n entries
EntryOrders(n) == { f \in [1..n -> 1..n] : \A x \in 1..n : \E y \in 1..n : f[y] = x }

\* The merge loop of page i, run a on the answer as it is and run b on the
\* same entries listed in another order
MergePage ==
    /\ pc = "merge"
    /\ IF res.t = "scalar"
       THEN /\ pc' = "raised"
            /\ raised_in' = "merge"
            /\ UNCHANGED << res, merged, i, progress >>
       ELSE \E order \in EntryOrders(Len(res.items)) :
              \E oa \in MergeLoop(merged["a"], page_numbers[i], res.items) :
                \E ob \in MergeLoop(merged["b"], page_numbers[i],
                                    [k \in 1..Len(res.items) |-> res.items[order[k]]]) :
                  /\ merged' = [r \in Runs |-> IF r = "a" THEN oa.m ELSE ob.m]
                  /\ IF oa.raised \/ ob.raised
                     THEN /\ pc' = "raised"
                          /\ raised_in' = "merge"
                          /\ UNCHANGED << res, i, progress >>
                     ELSE /\ res' = [res EXCEPT !.items = << >>]
                          /\ progress' = [progress EXCEPT ![i] = "merged"]
                          /\ i' = i + 1
                          /\ pc' = IF i = NPages THEN "sort" ELSE "crop"
                          /\ UNCHANGED raised_in
    /\ UNCHANGED << api_key, pages, page_numbers, unified_bbox, hints, final,
                    ocr_log, ocr_counts, tokens, crops, prompts, posts, box_count,
                    answers, appVars >>

\* sorted_keys = sorted(merged.keys(), ...); final_output; return
Sort ==
    /\ pc = "sort"
    /\ final' = [r \in Runs |-> FinalOutput(merged[r])]
    /\ pc' = "done"
    /\ UNCHANGED << api_key, pages, page_numbers, i, unified_bbox, hints, res,
                    merged, ocr_log, raised_in, ocr_counts, tokens, crops, prompts,
                    posts, progress, box_count, answers, appVars >>

\* ------------------------------------------------------------------------
\* Inputs
\* ------------------------------------------------------------------------

MaxPages == 2
MaxTokens == 2
MaxFigs == 3

Landscape == Image(1600, 800)
Portrait  == Image(800, 1600)

\* Documents as app.py hands them over: n pages, numbered base, base+1, ...
\* (page_numbers None stands for base 1)
Docs(Images, Sizes, Bases) ==
    UNION { { [pages |-> p, page_numbers |-> [k \in 1..n |-> base + k - 1]] :
                p \in [1..n -> Images], base \in Bases } : n \in Sizes }

NoFigs == << 0, 0, 0, 0 >>
Shape(l, t, r, b) == [some |-> TRUE, l |-> l, t |-> t, r |-> r, b |-> b]
FullShape == Shape(0, 0, 8, 8)

\* OCR tokens: text, confidence and pixel box
Tok(text, conf) ==
    [text |-> text, conf |-> conf, left |-> 10, top |-> 20, width |-> 30, height |-> 40]
Repeat(x, n) == [k \in 1..n |-> x]

T_fig3   == Tok(<< "F", "I", "G", ".", " ", "3" >>, 96)
T_140p   == Tok(<< "1", "4", "0", "'" >>, 90)
T_G      == Tok(<< "G" >>, 20)

\* Hierarchy relations {parent, children}, told apart by a name only
Rel(name) == [t |-> "rel", s |-> << name >>, v |-> << >>]

\* Entries of a model answer
E_fig2   == Item(Str(<< "F", "I", "G", ".", " ", "2" >>),
                 List(<< Str(<< "1", "0" >>), Str(<< "2", "0" >>) >>),
                 List(<< Rel("1") >>))
E_2      == Item(Str(<< " ", "2" >>),
                 List(<< Str(<< "2", "0" >>), Str(<< " ", "3", "0" >>), Str(<< "1" >>) >>),
                 List(<< Rel("1") >>))
E_fig2b  == Item(Str(<< "f", "i", "g", " ", "2", "b" >>),
                 List(<< Str(<< "G" >>), Str(<< "g" >>), Str(<< "1" >>) >>),
                 Absent)
E_nofig  == Item(Str(<< "f", "i", "g" >>),
                 List(<< Str(<< "3", "0" >>) >>),
                 List(<< Rel("2") >>))
E_fig02  == Item(Str(<< "F", "I", "G", ".", " ", "0", "2" >>),
                 List(<< Str(<< "1", "0", "'" >>), Str(<< "a", "!" >>), NonStr,
                         Str(<< "1", "0" >>) >>),
                 Absent)
\* Entries that are not what the prompt asks for
E_fignum   == Item(NonStr, List(<< Str(<< "1", "0" >>) >>), Absent)
E_compnull == Item(Str(<< "F", "I", "G", ".", " ", "2" >>), NonStr, Absent)
E_compstr  == Item(Str(<< "F", "I", "G", ".", " ", "2" >>), Str(<< "1", "2" >>), Absent)
E_hiernull == Item(Str(<< "F", "I", "G", ".", " ", "2" >>),
                   List(<< Str(<< "1", "0" >>) >>), NonStr)

GoodEntries == { E_fig2, E_2, E_fig2b, E_nofig, E_fig02 }
OddEntries  == { NonDict, E_fignum, E_compnull, E_compstr, E_hiernull }

ArraysOver(Pool, n) == UNION { [1..k -> Pool] : k \in 0..n }

Plain(body) == Payload(Text(FALSE, FALSE, body))
Array(items) == Body("array", items, 0, << >>)

\* Answers whose text is not a JSON array
NonArrayBodies ==
    { Body("empty", << >>, 0, << >>),
      Body("prose", << >>, 0, << >>),
      Body("truncated", << >>, 0, << >>),
      Body("object", << >>, 0, << >>),
      Body("object", << >>, 2, << NonDict >>),
      Body("scalar", << >>, 0, << >>),
      Body("null", << >>, 0, << >>) }

FailedCalls == { Exception, BadStatus }

\* Answers for the merge: every array of up to MaxEntries good entries, a
\* good prefix followed by one odd entry, and the answers that are no array
MergeOutcomes ==
    FailedCalls
      \cup { Plain(b) : b \in NonArrayBodies }
      \cup { Plain(Array(a)) : a \in ArraysOver(GoodEntries, MaxEntries) }
      \cup { Plain(Array(a \o << e >>)) :
               a \in ArraysOver({E_fig2}, 1), e \in OddEntries }

\* A small set of answers, in every wrapping
FewOutcomes ==
    FailedCalls
      \cup { Payload(Text(f, j, b)) :
               f \in BOOLEAN, j \in BOOLEAN,
               b \in { Body("prose", << >>, 0, << >>),
                       Body("object", << >>, 2, << NonDict >>),
                       Array(<< >>),
                       Array(<< E_fig2 >>),
                       Array(<< E_fig2b, E_fig2 >>) } }

OneOutcome == { Plain(Array(<< E_fig2 >>)) }

\* Entries for one figure whose numeric labels are spread over the entries
E_2_digit == Item(Str(<< "f", "i", "g", " ", "2" >>),
                  List(<< Str(<< "1" >>), Str(<< "1", "a" >>) >>),
                  Absent)
NoiseEntries == { E_fig2, E_2_digit, E_fig2b }
NoiseOutcomes == { Plain(Array(a)) : a \in ArraysOver(NoiseEntries, MaxEntries) }

\* ------------------------------------------------------------------------
\* Specifications
\* ------------------------------------------------------------------------

\* The whole pipeline on small inputs of every kind
Init ==
    PipeInit(Docs({Landscape}, 1..MaxPages, {1}), BOOLEAN)

Next ==
    \/ Rotate({NoFigs, << 0, 1, 0, 0 >>})
    \/ Bbox({NoBox, FullShape})
    \/ Crop
    \/ Hints({<< T_fig3, T_G >>, Repeat(T_140p, hint_limit + 1)})
    \/ Call(FewOutcomes)
    \/ MergeStep
    \/ Sort

Spec == Init /\ [][Next]_vars

\* The merge on every answer of up to MaxEntries entries
InitMerge ==
    PipeInit(Docs({Landscape}, 1..MaxPages, {2}), {TRUE})

NextMerge ==
    \/ Rotate({NoFigs})
    \/ Bbox({FullShape})
    \/ Crop
    \/ Hints({<< >>})
    \/ Call(MergeOutcomes)
    \/ MergeStep
    \/ Sort

SpecMerge == InitMerge /\ [][NextMerge]_vars

\* Rotation on every assignment of counts up to MaxFigs to the four angles
AllCounts == [1..Len(angles) -> 0..MaxFigs]

InitRot ==
    PipeInit(Docs({Landscape}, {1}, {1}), {TRUE})

NextRot ==
    \/ Rotate(AllCounts)
    \/ Bbox({FullShape})
    \/ Crop
    \/ Hints({<< >>})
    \/ Call(OneOutcome)
    \/ MergeStep
    \/ Sort

SpecRot == InitRot /\ [][NextRot]_vars

\* The unified crop on pages of either orientation, rotated or not, with
\* content anywhere on the proxy or nowhere
EdgeMarks == {0, 7, 8}
CropShapes ==
    { NoBox } \cup { Shape(l, t, r, b) :
                       l \in EdgeMarks, t \in EdgeMarks, r \in EdgeMarks, b \in EdgeMarks }

InitCrop ==
    PipeInit(Docs({Landscape, Portrait}, 1..MaxPages, {1}), {TRUE})

NextCrop ==
    \/ Rotate({NoFigs, << 0, 2, 0, 0 >>})
    \/ Bbox({ sh \in CropShapes : sh.some => (sh.l < sh.r /\ sh.t < sh.b) })
    \/ Crop
    \/ Hints({<< >>})
    \/ Call(OneOutcome)
    \/ MergeStep
    \/ Sort

SpecCrop == InitCrop /\ [][NextCrop]_vars

\* The hint extractor on every list of up to MaxTokens tokens of the pool
TokenPool ==
    { Tok(<< " ", "F", "I", "G", ".", " ", "3" >>, 96),
      Tok(<< "f", "i", "g", "3", "b" >>, 96),
      Tok(<< "F", "I", "G" >>, 96),
      T_140p,
      Tok(<< "1", "8", "1", "a" >>, 90),
      Tok(<< "1", "5", "0", "\"", "\"" >>, 90),
      Tok(<< "1", "0", "'", "'", "'" >>, 90),
      T_G,
      Tok(<< "G" >>, 19),
      Tok(<< "0" >>, 96),
      Tok(<< "0", "0", "0", "0", "0", "0", "0" >>, 96),
      Tok(<< "1", "2", "3", "4", "5", "6" >>, 96),
      Tok(<< >>, 96),
      Tok(<< " ", " " >>, 96),
      Tok(<< "a", "b" >>, 96),
      Tok(<< "a", "1" >>, 96),
      Tok(<< "-" >>, 96) }

TokenLists == UNION { [1..n -> TokenPool] : n \in 0..MaxTokens }

InitHints ==
    PipeInit(Docs({Landscape}, {1}, {1}), {TRUE})

NextHints ==
    \/ Rotate({NoFigs})
    \/ Bbox({FullShape})
    \/ Crop
    \/ Hints(TokenLists)
    \/ Call(OneOutcome)
    \/ MergeStep
    \/ Sort

SpecHints == InitHints /\ [][NextHints]_vars

\* Figures whose sort keys are equal or differ, in answers that list the
\* same entries in different orders
OrderEntries == { E_fig2, E_fig02, E_fig2b }
OrderOutcomes == { Plain(Array(a)) : a \in ArraysOver(OrderEntries, MaxEntries) }

InitOrder ==
    PipeInit(Docs({Landscape}, 1..MaxPages, {2}), {TRUE})

NextOrder ==
    \/ Rotate({NoFigs})
    \/ Bbox({FullShape})
    \/ Crop
    \/ Hints({<< >>})
    \/ Call(OrderOutcomes)
    \/ MergePage
    \/ Sort

SpecOrder == InitOrder /\ [][NextOrder]_vars

\* The merge on entries that spread the numeric labels of a figure
InitNoise ==
    PipeInit(Docs({Landscape}, 1..MaxPages, {2}), {TRUE})

NextNoise ==
    \/ Rotate({NoFigs})
    \/ Bbox({FullShape})
    \/ Crop
    \/ Hints({<< >>})
    \/ Call(NoiseOutcomes)
    \/ MergeStep
    \/ Sort

SpecNoise == InitNoise /\ [][NextNoise]_vars

\* ------------------------------------------------------------------------
\* The /api/parse handler (app.py).  Flask serves requests on threads, so
\* the steps of two requests interleave at their file operations.
\* ------------------------------------------------------------------------

Requests == {"q1", "q2"}

\* Uploaded documents: the number of pages pdf_to_images returns, 0 for a
\* file fitz cannot open
DocPages == [two |-> 2, one |-> 1, corrupt |-> 0]
DocIds == DOMAIN DocPages

\* secure_filename(f.filename) on the names of the model: the directory
\* part is dropped
RawNames == {"a.pdf", "../a.pdf", "b.pdf"}
secure_filename(name) == IF name = "../a.pdf" THEN "a.pdf" ELSE name
FileNames == { secure_filename(n) : n \in RawNames }

\* The paths the handler uses
TmpPath(filename)       == [kind |-> "_tmp_", name |-> filename]
OcrLogPath(filename)    == [kind |-> "ocr_log_", name |-> filename]
CorrectedPath(filename) == [kind |-> "corrected_", name |-> filename]
Paths == { [kind |-> k, name |-> n] : k \in {"_tmp_", "ocr_log_", "corrected_"}, n \in FileNames }

NoFile == << >>
File(by, doc) == << [by |-> by, doc |-> doc] >>

\* A request: has_file ("file" in request.files), the upload's name and
\* content, and the page parameter ("" when absent)
Upload(h, n, d, pg) == [has_file |-> h, name |-> n, doc |-> d, page |-> pg]
Uploads ==
    {Upload(FALSE, "", "one", ""), Upload(TRUE, "", "one", "")}
      \cup { Upload(TRUE, n, d, pg) : n \in RawNames, d \in DocIds, pg \in {"", "2", "x"} }

\* int(page_param) where it succeeds
PageParamValue == [x \in {"1", "2"} |-> IF x = "1" THEN 1 ELSE 2]

\* jsonify: the status, the error message ("" when none) and the result
Response(status, error, result) == [status |-> status, error |-> error, result |-> result]
NoResponse == Response(0, "", << >>)

\* The Final Result for a document and a page selection, as far as the
\* handler is concerned
Result(doc, numbers) == << [doc |-> doc, page_numbers |-> numbers] >>

NewRequest ==
    [pc |-> "new", upload |-> << >>, filename |-> "", pages |-> "", page_numbers |-> << >>,
     raised |-> FALSE, response |-> NoResponse]

PipeIdle ==
    /\ pc = "idle"
    /\ api_key = TRUE
    /\ pages = << >>
    /\ page_numbers = << >>
    /\ i = 1
    /\ unified_bbox = NoBox
    /\ hints = << >>
    /\ res = PyList(<< >>)
    /\ merged = [r \in Runs |-> << >>]
    /\ final = [r \in Runs |-> << >>]
    /\ ocr_log = << >>
    /\ raised_in = ""
    /\ ocr_counts = << >>
    /\ tokens = << >>
    /\ crops = << >>
    /\ prompts = << >>
    /\ posts = << >>
    /\ progress = << >>
    /\ box_count = 0
    /\ answers = << >>

InitParse ==
    /\ PipeIdle
    /\ fs = [p \in Paths |-> NoFile]
    /\ req = [q \in Requests |-> NewRequest]

\* Lines 26-34: the upload is checked and saved as ./_tmp_<filename>
Receive(q) ==
    /\ req[q].pc = "new"
    /\ \E u \in Uploads :
         IF ~u.has_file
         THEN /\ req' = [req EXCEPT ![q].pc = "done", ![q].upload = << u >>,
                                     ![q].response = Response(400, "missing file", << >>)]
              /\ UNCHANGED fs
         ELSE IF u.name = ""
         THEN /\ req' = [req EXCEPT ![q].pc = "done", ![q].upload = << u >>,
                                     ![q].response = Response(400, "empty file", << >>)]
              /\ UNCHANGED fs
         ELSE /\ req' = [req EXCEPT ![q].pc = "rasterize", ![q].upload = << u >>,
                                     ![q].filename = secure_filename(u.name)]
              /\ fs' = [fs EXCEPT ![TmpPath(secure_filename(u.name))] = File(q, u.doc)]
    /\ UNCHANGED pipeVars

\* Lines 45-76: pdf_to_images(tmp_path) and the page selection
Rasterize(q) ==
    /\ req[q].pc = "rasterize"
    /\ LET f == fs[TmpPath(req[q].filename)]
           page_param == req[q].upload[1].page
       IN  IF f = NoFile \/ DocPages[f[1].doc] = 0
           THEN \* fitz.open raises: except Exception -> 500
                req' = [req EXCEPT ![q].pc = "finally",
                                   ![q].response = Response(500, "error", << >>)]
           ELSE LET total == DocPages[f[1].doc]
                IN  IF page_param = ""
                    THEN req' = [req EXCEPT ![q].pc = "openlog", ![q].pages = f[1].doc,
                                            ![q].page_numbers = [k \in 1..total |-> k]]
                    ELSE IF page_param \notin DOMAIN PageParamValue
                    THEN req' = [req EXCEPT ![q].pc = "finally",
                                   ![q].response = Response(400, "page must be int", << >>)]
                    ELSE IF PageParamValue[page_param] < 1 \/ PageParamValue[page_param] > total
                    THEN req' = [req EXCEPT ![q].pc = "finally",
                                   ![q].response = Response(400, "page out of range", << >>)]
                    ELSE req' = [req EXCEPT ![q].pc = "openlog", ![q].pages = f[1].doc,
                                   ![q].page_numbers = << PageParamValue[page_param] >>]
    /\ UNCHANGED << fs, pipeVars >>

\* extract_figures_with_lmm up to open(ocr_log_path, "w")
OpenLog(q) ==
    /\ req[q].pc = "openlog"
    /\ fs' = [fs EXCEPT ![OcrLogPath(req[q].filename)] = File(q, req[q].pages)]
    /\ req' = [req EXCEPT ![q].pc = "pipeline"]
    /\ UNCHANGED pipeVars

\* The page loop and the sort: the run returns, or an exception escapes it
\* and the handler answers 500
RunPipeline(q) ==
    /\ req[q].pc = "pipeline"
    /\ \E escapes \in BOOLEAN :
         req' = IF escapes
                THEN [req EXCEPT ![q].pc = "finally", ![q].raised = TRUE,
                                 ![q].response = Response(500, "error", << >>)]
                ELSE [req EXCEPT ![q].pc = "save"]
    /\ UNCHANGED << fs, pipeVars >>

\* Lines 84-119: selected[0].save("corrected_" + filename), jsonify
SaveCorrected(q) ==
    /\ req[q].pc = "save"
    /\ fs' = [fs EXCEPT ![CorrectedPath(req[q].filename)] = File(q, req[q].pages)]
    /\ req' = [req EXCEPT ![q].pc = "finally",
                          ![q].response = Response(200, "", Result(req[q].pages, req[q].page_numbers))]
    /\ UNCHANGED pipeVars

\* finally: os.remove(tmp_path), any error swallowed; the response is sent
Finally(q) ==
    /\ req[q].pc = "finally"
    /\ fs' = [fs EXCEPT ![TmpPath(req[q].filename)] = NoFile]
    /\ req' = [req EXCEPT ![q].pc = "done"]
    /\ UNCHANGED pipeVars

NextParse ==
    \E q \in Requests :
      \/ Receive(q)
      \/ Rasterize(q)
      \/ OpenLog(q)
      \/ RunPipeline(q)
      \/ SaveCorrected(q)
      \/ Finally(q)

SpecParse == InitParse /\ [][NextParse]_vars

\* ------------------------------------------------------------------------
\* Properties
\* ------------------------------------------------------------------------

Steps == << "raw", "rotated", "cropped", "hinted", "called", "merged" >>
StepNo(p) == CHOOSE k \in 1..Len(Steps) : Steps[k] = p

\* The entries of page k's answer that the merge loop has gone through
Processed(k) ==
    IF answers[k] = << >> THEN << >>
    ELSE IF progress[k] = "merged" THEN answers[k][1]
    ELSE IF k = i /\ pc = "merge"
    THEN SubSeq(answers[k][1], 1, Len(answers[k][1]) - Len(res.items))
    ELSE << >>

\* C1: whatever the model call yields for a page, the run does not raise out
\* of the handling of that answer, and once the run is past the page loop
\* every page has been handled.
C1_FailureIsPageScoped ==
    /\ raised_in # "merge"
    /\ pc \in {"sort", "done"} => \A k \in 1..NPages : progress[k] = "merged"

\* C2: two runs on the same pages, page numbers and model answers return the
\* same list, the components of every record in the same order.
C2_SameInputSameResult ==
    pc = "done" => final["a"] = final["b"]

RECURSIVE ConcatHierarchies(_, _)
ConcatHierarchies(items, fig) ==
    IF items = << >> THEN << >>
    ELSE (IF _normalize_figure(Head(items).figure) = fig
          THEN Elements(Head(items).hierarchy) ELSE << >>)
           \o ConcatHierarchies(Tail(items), fig)

\* C3: the entries of a page whose figure ids normalize to the same
\* non-empty value make exactly one record, keyed by page number and
\* normalized id; its components are the set union of the cleaned component
\* lists of those entries, each label once; its hierarchy is the
\* concatenation of their hierarchy lists in entry order; an entry whose id
\* normalizes to empty makes or changes no record.
C3_MergeIsUnionPerFigure ==
    pc # "raised" =>
      \A r \in Runs : \A k \in 1..NPages :
        LET items == Processed(k)
            figs  == { _normalize_figure(items[j].figure) : j \in 1..Len(items) } \ { << >> }
            recs  == { n \in 1..Len(merged[r]) : merged[r][n].page = page_numbers[k] }
        IN  /\ Cardinality(recs) = Cardinality(figs)
            /\ \A f \in figs :
                 \E n \in recs :
                   LET labels == UNION { CleanedSet(items[j].components) :
                                           j \in { x \in 1..Len(items) :
                                                     _normalize_figure(items[x].figure) = f } }
                   IN  /\ merged[r][n].figure = f
                       /\ ToSet(merged[r][n].components) = labels
                       /\ Len(merged[r][n].components) = Cardinality(labels)
                       /\ merged[r][n].hierarchy = ConcatHierarchies(items, f)

C3_TwoEntriesMerged ==
    /\ pc = "done"
    /\ \E n \in 1..Len(final["a"]) :
         /\ final["a"][n].components = << << "1", "0" >>, << "2", "0" >>, << "3", "0" >> >>
         /\ final["a"][n].hierarchy = << Rel("1"), Rel("1") >>

NonDecreasingComps(comps) ==
    \A x \in 1..Len(comps) : \A y \in 1..Len(comps) :
      x < y => /\ comps[x] # comps[y]
               /\ ~CompKeyLess(_component_sort_key(comps[y]), _component_sort_key(comps[x]))

\* C4: after every merge step the components of every record hold no label
\* twice and are non-decreasing under the component sort key; the returned
\* list is non-decreasing under (page number, figure sort key) and holds
\* every (page, figure id) pair at most once.
C4_CanonicalOrder ==
    /\ \A r \in Runs : \A n \in 1..Len(merged[r]) :
         NonDecreasingComps(merged[r][n].components)
    /\ pc = "done" =>
         \A r \in Runs :
           /\ Len(final[r]) = Len(merged[r])
           /\ \A x \in 1..Len(final[r]) : \A y \in 1..Len(final[r]) :
                x < y =>
                  /\ ~FinalKeyLess(final[r][y], final[r][x])
                  /\ << final[r][x].page, final[r][x].figure >>
                       # << final[r][y].page, final[r][y].figure >>
                  /\ NonDecreasingComps(final[r][x].components)

C4_SortedResultReturned ==
    /\ pc = "done"
    /\ Len(final["a"]) >= 2
    /\ final["a"] # merged["a"]
    /\ \E n \in 1..Len(final["a"]) : Len(final["a"][n].components) >= 2

\* The earliest angle whose count is the maximum over all four
StableArgmax(counts) ==
    LET top == CHOOSE c \in ToSet(counts) : \A d \in ToSet(counts) : d <= c
        k   == CHOOSE j \in 1..Len(counts) :
                 counts[j] = top /\ \A j2 \in 1..Len(counts) : counts[j2] = top => j <= j2
    IN  angles[k]

\* C5 as stated: the angle stored in auto_rotate_deg is the earliest angle
\* whose count is the maximum over all four angles, whatever the counts.
C5_StableArgmaxOverAll ==
    ocr_counts # << >> =>
      pages[ocr_counts[1]].info = << StableArgmax(ocr_counts[2]) >>

\* C5 as the code has it: the angle stored in auto_rotate_deg is the first
\* angle whose count is at least 2 if there is one, and otherwise the
\* earliest angle whose count is the maximum over all four; it is stored
\* also when it is 0.
C5_FirstWithTwoElseArgmax ==
    ocr_counts # << >> =>
      LET counts == ocr_counts[2]
          enough == { k \in 1..Len(counts) : counts[k] >= 2 }
      IN  pages[ocr_counts[1]].info =
            << IF enough # {}
               THEN angles[CHOOSE k \in enough : \A k2 \in enough : k <= k2]
               ELSE StableArgmax(counts) >>

C5_HalfTurnWins ==
    /\ ocr_counts = << 1, << 1, 0, 3, 3 >> >>
    /\ pages[1].info = << 180 >>

\* C6: the rectangle cropped on a page lies inside that page:
\* 0 <= left <= right <= width and 0 <= top <= bottom <= height.
C6_CropInsidePage ==
    crops # << >> =>
      LET c == crops[1]
          p == crops[2]
      IN  /\ 0 <= c.l /\ c.l <= c.r /\ c.r <= p.w
          /\ 0 <= c.t /\ c.t <= c.b /\ c.b <= p.h

\* C7: a token yields a hint exactly when its confidence is at least 20, its
\* stripped text is not empty, is not all digits and longer than 6, is not
\* "0", and matches the figure-tag pattern or the component pattern or is
\* one character long
C7_Kept(tok) ==
    LET text == Strip(tok.text)
    IN  /\ tok.conf >= 20
        /\ text # << >>
        /\ ~(IsDigitStr(text) /\ Len(text) > 6)
        /\ text # << "0" >>
        /\ fig_pattern(text) \/ comp_pattern(text) \/ Len(text) = 1

\* C7: the hints are the kept tokens in the order of detection, a token
\* matching the figure-tag pattern typed figure_label and any other
\* component.
C7_HintsAreTheKeptTokens ==
    pc \in {"call", "merge"} =>
      LET kept == { k \in 1..Len(tokens) : C7_Kept(tokens[k]) }
      IN  /\ Len(hints) = Cardinality(kept)
          /\ \A k \in kept :
               LET n == Cardinality({ j \in kept : j <= k })
               IN  /\ hints[n].text = Strip(tokens[k].text)
                   /\ hints[n].type = IF fig_pattern(Strip(tokens[k].text))
                                      THEN "figure_label" ELSE "component"

C7_DropAndKeep ==
    /\ pc = "call"
    /\ Len(tokens) = 2
    /\ tokens[1].text = << "0" >>
    /\ Len(hints) = 1
    /\ hints[1].type = "figure_label"

\* The order of the steps, up to the number of requests per page
StepOrder ==
    /\ box_count <= 1
    /\ pc = "rotate" =>
         /\ box_count = 0
         /\ \A k \in 1..Len(pages) : progress[k] = IF k < i THEN "rotated" ELSE "raw"
    /\ pc = "bbox" =>
         /\ box_count = 0
         /\ \A k \in 1..Len(pages) : progress[k] = "rotated"
    /\ pc \in {"crop", "hints", "call", "merge"} =>
         /\ box_count = 1
         /\ i \in 1..NPages
         /\ \A k \in 1..NPages :
              progress[k] = IF k < i THEN "merged"
                            ELSE IF k > i THEN "rotated"
                            ELSE IF pc = "crop" THEN "rotated"
                            ELSE IF pc = "hints" THEN "cropped"
                            ELSE IF pc = "call" THEN "hinted"
                            ELSE "called"
    /\ pc \in {"sort", "done"} =>
         /\ box_count = 1
         /\ \A k \in 1..NPages : progress[k] = "merged"
    /\ pc # "done" => \A r \in Runs : final[r] = << >>
    /\ pc \in {"merge", "sort", "done"} /\ prompts # << >> =>
         /\ Len(prompts[1].hints) <= 50
         /\ pc = "merge" =>
              /\ prompts[1].page = page_numbers[i]
              /\ \A n \in 1..Len(prompts[1].hints) : prompts[1].hints[n] = hints[n]
              /\ Len(hints) >= 50 => Len(prompts[1].hints) = 50

\* C10 as stated: rotation of every page, then the box once, then page by
\* page crop, hints, model call, merge, the external model invoked exactly
\* once for every page that got to its call, at most 50 hints in the prompt,
\* and the sort after the last merge.
C10_OneRequestPerPage ==
    /\ StepOrder
    /\ \A k \in 1..Len(pages) :
         posts[k] = IF StepNo(progress[k]) >= StepNo("called") THEN 1 ELSE 0

\* C10 as the code has it: the same order of steps, with the external model
\* invoked at most once per page (no retry): exactly once for every page that
\* got to its call when GEMINI_API_KEY is set, and never when it is not set.
C10_OneRequestPerPageWithKey ==
    /\ StepOrder
    /\ \A k \in 1..Len(pages) :
         posts[k] = IF StepNo(progress[k]) >= StepNo("called") /\ api_key THEN 1 ELSE 0

C10_TwoPagesDone ==
    /\ pc = "done"
    /\ NPages = 2
    /\ api_key
    /\ posts = << 1, 1 >>
    /\ Len(hints) = 51
    /\ Len(prompts[1].hints) = 50
    /\ Len(final["a"]) >= 1

\* The files request q wrote that are still there
LeftBy(q) == { p \in Paths : fs[p] # NoFile /\ fs[p][1].by = q }

\* C8: when the response of a request is returned, neither the saved upload
\* _tmp_<filename> nor the OCR log ocr_log_<filename>.txt that the request
\* created exists any more.
C8_ArtifactsReleased ==
    \A q \in Requests :
      req[q].pc = "done" =>
        \A p \in LeftBy(q) : p.kind \notin {"_tmp_", "ocr_log_"}

\* The response a request gets when it runs alone
Alone(u, raised) ==
    IF ~u.has_file THEN Response(400, "missing file", << >>)
    ELSE IF u.name = "" THEN Response(400, "empty file", << >>)
    ELSE IF DocPages[u.doc] = 0 THEN Response(500, "error", << >>)
    ELSE IF u.page = ""
    THEN IF raised THEN Response(500, "error", << >>)
         ELSE Response(200, "", Result(u.doc, [k \in 1..DocPages[u.doc] |-> k]))
    ELSE IF u.page \notin DOMAIN PageParamValue
    THEN Response(400, "page must be int", << >>)
    ELSE IF PageParamValue[u.page] > DocPages[u.doc]
    THEN Response(400, "page out of range", << >>)
    ELSE IF raised THEN Response(500, "error", << >>)
    ELSE Response(200, "", Result(u.doc, << PageParamValue[u.page] >>))

\* C9: whatever the interleaving of two requests, each returns the response
\* it returns when run alone, and reads no upload the other one saved.
C9_RequestsIsolated ==
    \A q \in Requests :
      /\ req[q].pc = "done" => req[q].response = Alone(req[q].upload[1], req[q].raised)
      /\ req[q].pc \in {"openlog", "pipeline", "save"} => req[q].pages = req[q].upload[1].doc

\* The stripped string labels of comps that match the component pattern,
\* before the single-digit rule
MatchingLabels(comps) ==
    LET elems == Elements(comps)
    IN  { c \in { Strip(elems[k].s) : k \in { j \in 1..Len(elems) : elems[j].t = "str" } } :
            _COMPONENT_RE(c) }

\* C11: in every record of the returned list, a pure-numeric label of length
\* 2 or more excludes every single-digit pure-numeric label, however the
\* labels were spread over the entries merged into the record; and a label
\* with a letter in any of those entries is in the record.
C11_NoSingleDigitBesideNumeral ==
    pc = "done" =>
      \A r \in Runs : \A n \in 1..Len(final[r]) :
        LET labels == ToSet(final[r][n].components)
        IN  /\ (\E c \in labels : IsDigitStr(c) /\ Len(c) >= 2)
                 => ~(\E c \in labels : IsDigitStr(c) /\ Len(c) = 1)
            /\ \A k \in 1..NPages :
                 page_numbers[k] = final[r][n].page =>
                   \A j \in 1..Len(answers[k][1]) :
                     _normalize_figure(answers[k][1][j].figure) = final[r][n].figure =>
                       \A c \in MatchingLabels(answers[k][1][j].components) :
                         ~IsDigitStr(c) => c \in labels

\* The (page, figure id) pairs of a returned list, in its order
RecordKeys(out) == [n \in 1..Len(out) |-> << out[n].page, out[n].figure >>]

\* C12: two runs whose answers hold the same entries of every page, listed
\* in different orders within the page, return the same (page, figure id)
\* records in the same sequence.
C12_OrderFromSortKeysOnly ==
    pc = "done" => RecordKeys(final["a"]) = RecordKeys(final["b"])

====
